---- MODULE Spec2Model ----
(***************************************************************************)
(* Binomial lattice option pricer (binomial_option_pricer of "Binomial     *)
(* Lattice Options Pricer.py").                                            *)
(*                                                                         *)
(* Numbers.  A float is modelled as an exact rational [n, d] with d > 0    *)
(* and gcd(n, d) = 1, or as one of the three IEEE specials: NaN = [0, 0],  *)
(* +inf = [1, 0], -inf = [-1, 0].  Arithmetic is exact on finite values    *)
(* (no rounding) and follows IEEE 754 / numpy on the specials: numpy       *)
(* scalar operations return inf or nan with a warning, they do not raise.  *)
(*                                                                         *)
(* sigma and r only ever enter the computation through np.exp, so they are *)
(* modelled as logarithms a*ln(2) + b*ln(3), written [a, b]: np.exp of     *)
(* such a number is the rational 2^a * 3^b.  The inputs are restricted to  *)
(* those for which np.sqrt(T/N) is rational and both exponents stay on the *)
(* lattice (ExactInput), so np.sqrt and np.exp are computed exactly.       *)
(***************************************************************************)
EXTENDS Integers, Sequences, FiniteSets, TLC

\* ------------------------------------------------------------ bounds
\* Largest number of time steps N of a pricing call.
MaxN == 3
\* Spot S and strike K range over 0..MaxPrice.
MaxPrice == 3
\* Time to maturity T ranges over -1..MaxT.
MaxT == 4
\* Largest number of presses of the calculate button in one session.
MaxPresses == 2

\* ------------------------------------------------------------ floats
Abs(x) == IF x < 0 THEN -x ELSE x

\* Euclid's algorithm, as a function so that each argument is evaluated once.
Euclid[a \in Nat, b \in Nat] == IF b = 0 THEN a ELSE Euclid[b, a % b]
GCD(a, b) == Euclid[a, b]

\* The rational n/d (d > 0) in lowest terms.
Rat(n, d) ==
    LET g == GCD(Abs(n), d) IN [n |-> n \div g, d |-> d \div g]

FromInt(k) == [n |-> k, d |-> 1]
Zero == FromInt(0)
One == FromInt(1)
NaN == [n |-> 0, d |-> 0]
PInf == [n |-> 1, d |-> 0]
NInf == [n |-> -1, d |-> 0]

IsNaN(x) == x.d = 0 /\ x.n = 0
IsFinite(x) == x.d > 0
Sign(x) == IF x.n > 0 THEN 1 ELSE IF x.n < 0 THEN -1 ELSE 0
Inf(s) == IF s > 0 THEN PInf ELSE NInf

Neg(x) == [n |-> -x.n, d |-> x.d]

\* x * y
Mul(x, y) ==
    IF IsNaN(x) \/ IsNaN(y) THEN NaN
    ELSE IF ~IsFinite(x) \/ ~IsFinite(y)
         THEN IF Sign(x) * Sign(y) = 0 THEN NaN ELSE Inf(Sign(x) * Sign(y))
    ELSE LET g1 == GCD(Abs(x.n), y.d)
             g2 == GCD(Abs(y.n), x.d)
         IN  [n |-> (x.n \div g1) * (y.n \div g2),
              d |-> (x.d \div g2) * (y.d \div g1)]

\* x + y
Add(x, y) ==
    IF IsNaN(x) \/ IsNaN(y) THEN NaN
    ELSE IF ~IsFinite(x) /\ ~IsFinite(y)
         THEN IF Sign(x) = Sign(y) THEN x ELSE NaN
    ELSE IF ~IsFinite(x) THEN x
    ELSE IF ~IsFinite(y) THEN y
    ELSE LET g == GCD(x.d, y.d)
             l == (x.d \div g) * y.d
         IN  Rat(x.n * (l \div x.d) + y.n * (l \div y.d), l)

\* x - y
Sub(x, y) == Add(x, Neg(y))

\* x / y for numpy floats: a zero divisor gives nan or +-inf, never an exception.
Div(x, y) ==
    IF IsNaN(x) \/ IsNaN(y) THEN NaN
    ELSE IF ~IsFinite(y)
         THEN IF IsFinite(x) THEN Zero ELSE NaN
    ELSE IF y.n = 0
         THEN IF Sign(x) = 0 THEN NaN ELSE Inf(Sign(x))
    ELSE IF ~IsFinite(x) THEN Inf(Sign(x) * Sign(y))
    ELSE Mul(x, [n |-> Sign(y) * y.d, d |-> Abs(y.n)])

\* x < y; every comparison with nan is false.
Lt(x, y) ==
    LET s == Sub(x, y) IN
    IF IsNaN(x) \/ IsNaN(y) THEN FALSE
    ELSE IF IsNaN(s) THEN FALSE
    ELSE s.n < 0

\* np.maximum(0, x): nan propagates.
Maximum0(x) == IF IsNaN(x) THEN NaN ELSE IF Lt(Zero, x) THEN x ELSE Zero

\* np.sqrt(x): nan for a negative argument; exact on a ratio of squares.
Sqrt(x) ==
    IF IsNaN(x) \/ x.n < 0 THEN NaN
    ELSE IF ~IsFinite(x) THEN PInf
    ELSE [n |-> CHOOSE m \in 0..x.n : m * m = x.n,
          d |-> CHOOSE m \in 1..x.d : m * m = x.d]

IsSquare(k) == \E m \in 0..k : m * m = k

\* ------------------------------------------------------------ logarithms
\* The number a*ln(2) + b*ln(3); nan marks a nan product.
Log(a, b) == [a |-> a, b |-> b, nan |-> FALSE]
LogNaN == [a |-> 0, b |-> 0, nan |-> TRUE]

\* -x
LogNeg(x) == [a |-> -x.a, b |-> -x.b, nan |-> x.nan]

\* x * c for a float c (finite or nan).
LogMul(x, c) ==
    IF x.nan \/ ~IsFinite(c) THEN LogNaN
    ELSE [a |-> (x.a * c.n) \div c.d, b |-> (x.b * c.n) \div c.d, nan |-> FALSE]

\* Whether x * c stays on the lattice, so that LogMul is exact.
LogMulExact(x, c) ==
    ~IsFinite(c) \/ ((x.a * c.n) % c.d = 0 /\ (x.b * c.n) % c.d = 0)

PowInt(base, e) ==
    IF e >= 0 THEN [n |-> base ^ e, d |-> 1] ELSE [n |-> 1, d |-> base ^ (-e)]

\* np.exp(x)
Exp(x) == IF x.nan THEN NaN ELSE Mul(PowInt(2, x.a), PowInt(3, x.b))

\* ------------------------------------------------------------ the pricer
\* Parameter sets.  sigma in {-ln 2, 0, ln 2}; r in {0, ln(3/2), ln 2, ln(2/3)}.
SigmaSet == {Log(-1, 0), Log(0, 0), Log(1, 0)}
RateSet == {Log(0, 0), Log(-1, 1), Log(1, 0), Log(1, -1)}
KindSet == {"call", "put", "straddle"}
NSet == (-2)..MaxN
TSet == (-1)..MaxT
PriceSet == {FromInt(k) : k \in 0..MaxPrice}

\* The inputs on which np.sqrt and np.exp are computed exactly by Sqrt and Exp.
ExactInput(T, r, sigma, N) ==
    IF N = 0 THEN TRUE
    ELSE LET dt == Div(FromInt(T), FromInt(N)) IN
         IF dt.n < 0 THEN LogMulExact(r, dt)
         ELSE /\ IsSquare(dt.n) /\ IsSquare(dt.d)
              /\ LogMulExact(sigma, Sqrt(dt))
              /\ LogMulExact(r, dt)

\* A local that is not assigned yet, and a grid that is not allocated yet.
None == [n |-> 0, d |-> -1]
NoGrid == [p \in {} |-> Zero]

\* np.zeros((N+1, N+1)), for N >= -1.
Zeros(N) == [p \in (0..N) \X (0..N) |-> Zero]

\* Factors with the probability of the down move taken for q.
Factors_DownProbability(T, r, sigma, N) ==
    LET dt == Div(FromInt(T), FromInt(N))
        up == Exp(LogMul(sigma, Sqrt(dt)))
        dn == Exp(LogMul(LogNeg(sigma), Sqrt(dt)))
        RR == Exp(LogMul(r, dt))
    IN  [delta_t |-> dt, u |-> up, d |-> dn, R |-> RR,
         q |-> Div(Sub(up, RR), Sub(up, dn))]

\* delta_t, u, d, R and q of a call with N # 0.
Factors(T, r, sigma, N) ==
    LET dt == Div(FromInt(T), FromInt(N))
        up == Exp(LogMul(sigma, Sqrt(dt)))
        dn == Exp(LogMul(LogNeg(sigma), Sqrt(dt)))
        RR == Exp(LogMul(r, dt))
    IN  [delta_t |-> dt, u |-> up, d |-> dn, R |-> RR,
         q |-> Div(Sub(RR, dn), Sub(up, dn))]

\* StockParent with the down move read from the same column of the layer before.
StockParent_SameColumn(i, j) == <<i - 1, j>>

\* The slot of layer i-1 that node (i, j) is computed from.
StockParent(i, j) == <<i - 1, IF j = 0 THEN 0 ELSE j - 1>>

\* StockNode with the down move taken from node (i-1, j) instead of (i-1, j-1).
StockNode_WrongParent(sp, i, j, u, d) ==
    [sp EXCEPT ![<<i, j>>] =
        IF j = 0 THEN Mul(sp[<<i - 1, 0>>], u) ELSE Mul(sp[<<i - 1, j>>], d)]

\* One assignment of the price loops: node (i, 0) by an up move, node (i, j),
\* j >= 1, by a down move from node (i-1, j-1).
StockNode(sp, i, j, u, d) ==
    [sp EXCEPT ![<<i, j>>] =
        IF j = 0 THEN Mul(sp[StockParent(i, j)], u) ELSE Mul(sp[StockParent(i, j)], d)]

\* PayoffBranch with the else branch pricing a put instead of raising.
PayoffBranch_DefaultPut(option_type) ==
    IF option_type = "call" THEN "call" ELSE "put"

\* The branch the if / elif / else on option_type takes.
PayoffBranch(option_type) ==
    IF option_type = "call" THEN "call"
    ELSE IF option_type = "put" THEN "put"
    ELSE "raise"

\* Payoff without the floor at zero.
Payoff_NoFloor(price, K, option_type) ==
    IF PayoffBranch(option_type) = "call" THEN Sub(price, K) ELSE Sub(K, price)

\* Payoff with the call and put formulas exchanged.
Payoff_Swapped(price, K, option_type) ==
    IF PayoffBranch(option_type) = "call" THEN Maximum0(Sub(K, price))
    ELSE Maximum0(Sub(price, K))

\* The payoff at maturity of one node of the last layer.
Payoff(price, K, option_type) ==
    IF PayoffBranch(option_type) = "call" THEN Maximum0(Sub(price, K))
    ELSE Maximum0(Sub(K, price))

\* The slice [N, :]: the slots of row N that the terminal payoff reads and writes.
LastRow(N) == {<<N, b>> : b \in 0..N}

\* option_values[N, :] = np.maximum(0, ...): row N of ov is overwritten.
TerminalPayoff(sp, ov, N, K, option_type) ==
    [p \in DOMAIN ov |->
        IF p \in LastRow(N) THEN Payoff(sp[p], K, option_type) ELSE ov[p]]

\* The two slots of layer i+1 that node (i, j) is discounted from.
UpChild(i, j) == <<i + 1, j>>
DownChild(i, j) == <<i + 1, j + 1>>

\* BackNode without the division by R.
BackNode_NoDiscount(ov, i, j, q, R) ==
    [ov EXCEPT ![<<i, j>>] =
        Add(Mul(q, ov[<<i + 1, j>>]), Mul(Sub(One, q), ov[<<i + 1, j + 1>>]))]

\* One assignment of the backward loops.
BackNode(ov, i, j, q, R) ==
    [ov EXCEPT ![<<i, j>>] =
        Div(Add(Mul(q, ov[UpChild(i, j)]),
                Mul(Sub(One, q), ov[DownChild(i, j)])), R)]

\* The slots visualize_binomial_tree reads of each grid: for i in range(N+1),
\* for j in range(i+1).
Plotted(N) == {p \in (0..N) \X (0..N) : p[2] <= p[1]}

\* Slot p of a grid, as an element of reads and written.
Slot(grid, p) == <<grid, p[1], p[2]>>

\* for i in range(1, N+1): ...; for j in range(1, i+1): ..., entered at (i, j).
RECURSIVE StockLoop(_, _, _, _, _, _)
StockLoop(sp, i, j, N, u, d) ==
    IF i > N THEN sp
    ELSE IF j > i THEN StockLoop(sp, i + 1, 0, N, u, d)
    ELSE StockLoop(StockNode(sp, i, j, u, d), i, j + 1, N, u, d)

\* for i in range(N-1, -1, -1): for j in range(i+1): ..., entered at (i, j).
RECURSIVE BackLoop(_, _, _, _, _)
BackLoop(ov, i, j, q, R) ==
    IF i < 0 THEN ov
    ELSE IF j > i THEN BackLoop(ov, i - 1, 0, q, R)
    ELSE BackLoop(BackNode(ov, i, j, q, R), i, j + 1, q, R)

Raised(e) == [returned |-> FALSE, value |-> None, exception |-> e]
Returned(v) == [returned |-> TRUE, value |-> v, exception |-> "none"]

\* The outcome of a whole call, as a function of its arguments.
binomial_option_pricer(S, K, T, r, sigma, N, option_type) ==
    IF N = 0 THEN Raised("ZeroDivisionError")
    ELSE IF N < -1 THEN Raised("ValueError")
    ELSE IF N = -1 THEN Raised("IndexError")
    ELSE LET f == Factors(T, r, sigma, N)
             sp == StockLoop([Zeros(N) EXCEPT ![<<0, 0>>] = S], 1, 0, N, f.u, f.d)
         IN  IF PayoffBranch(option_type) = "raise" THEN Raised("ValueError")
             ELSE LET ov == BackLoop(TerminalPayoff(sp, Zeros(N), N, K, option_type),
                                     N - 1, 0, f.q, f.R)
                  IN  Returned(ov[<<0, 0>>])

\* ------------------------------------------------------------ implied volatility
\* The integer nearest to n / d, a tie going to the even one.
RoundHalfEven[n \in Int, d \in Nat] ==
    LET lo == n \div d
        rem == n - lo * d
    IN  IF 2 * rem > d THEN lo + 1 ELSE IF 2 * rem < d THEN lo ELSE lo + (lo % 2)

\* round(x, ndigits) of a finite x: the nearest multiple of 10^-ndigits, a tie
\* going to the even one.
RoundTo[n \in Int, d \in Nat, scale \in Nat] ==
    LET whole == n \div d
        g == GCD(scale, d)
        unit == RoundHalfEven[(n - whole * d) * (scale \div g), d \div g]
        h == GCD(unit, scale)
    IN  [n |-> whole * (scale \div h) + (unit \div h), d |-> scale \div h]
Round(x, ndigits) == RoundTo[x.n, x.d, 10 ^ ndigits]

\* sigma_low, sigma_high = 0.0001, 1 and tolerance = 0.0001
InitialSigmaLow == Rat(1, 10000)
InitialSigmaHigh == One
tolerance == Rat(1, 10000)

\* Midpoint taken a third of the way up the bracket.
Midpoint_Third(sigma_low, sigma_high) ==
    CHOOSE mid \in {Div(sum, FromInt(3)) :
                       sum \in {Add(twice, sigma_high) :
                                  twice \in {Add(sigma_low, sigma_low)}}} : TRUE

\* sigma_mid = (sigma_low + sigma_high) / 2
Midpoint(sigma_low, sigma_high) ==
    CHOOSE mid \in {Div(sum, FromInt(2)) : sum \in {Add(sigma_low, sigma_high)}} : TRUE

\* The loop condition sigma_high - sigma_low > tolerance.
LoopCondition(sigma_low, sigma_high) ==
    \E width \in {Sub(sigma_high, sigma_low)} : Lt(tolerance, width)

RECURSIVE Pow(_, _)
\* x ** k for k >= 0 (x ** 0 is 1, also for nan).
Pow(x, k) ==
    IF k = 0 THEN One
    ELSE IF k % 2 = 1 THEN Mul(x, Pow(x, k - 1))
    ELSE Pow(Mul(x, x), k \div 2)

\* ------------------------------------------------------------ interest calculator
\* The content of an entry box: empty, a text that float() rejects, or the text
\* of a number.  str() of a float or an int and float() of that text give the
\* same number back, so a numeric text is held as the number it denotes.
Empty == [kind |-> "empty", value |-> Zero]
InvalidText == [kind |-> "invalid", value |-> Zero]
Str(x) == [kind |-> "number", value |-> x]

\* The outcome of evaluating an expression: a value or an exception.
Value(x) == [exc |-> "none", value |-> x]
Raise(e) == [exc |-> e, value |-> NaN]

\* float(x) if x else None, for all four fields: a ValueError when a non-empty
\* text is not a number.
Float(text) == IF text.kind = "number" THEN text.value ELSE None
FloatRaises(a_value, b_value, c_value, d_value) ==
    \E text \in {a_value, b_value, c_value, d_value} : text.kind = "invalid"

Hundred == FromInt(100)
TwelveHundred == FromInt(1200)

\* math.ceil(x), as a float value holding the int
Ceil(x) == FromInt(-((-x.n) \div x.d))

\* The least j >= 0 with base^(k*j) >= x, for x >= 1 and base > 1.
RECURSIVE LogUp(_, _, _, _)
LogUp(x, base, k, j) ==
    IF ~Lt(Pow(base, k * j), x) THEN j ELSE LogUp(x, base, k, j + 1)

\* The greatest j >= 0 with x * base^(k*j) <= 1, for 0 < x < 1 and base > 1.
RECURSIVE LogDown(_, _, _, _)
LogDown(x, base, k, j) ==
    IF Lt(One, Mul(x, Pow(base, k * (j + 1)))) THEN j ELSE LogDown(x, base, k, j + 1)

\* math.ceil(math.log(x) / (k * math.log(base))) for x > 0, base > 1 and whole
\* k >= 1: the least integer m with base^(k*m) >= x.
CeilLog(x, base, k) ==
    IF Lt(x, One) THEN FromInt(-LogDown(x, base, k, 0)) ELSE FromInt(LogUp(x, base, k, 0))

\* Whether x ** (1 / k) is taken exactly by Root: k is 1, x is 0 or 1, or k is 2
\* and x is a ratio of squares.
HasRoot(x, k) ==
    \/ k = 1
    \/ x \in {Zero, One}
    \/ k = 2 /\ IsSquare(x.n) /\ IsSquare(x.d)

\* x ** (1 / k) for x >= 0 and k >= 1 with HasRoot(x, k).
Root(x, k) == IF k = 1 \/ x \in {Zero, One} THEN x ELSE Sqrt(x)

\* The twelve formulas.  x / y on Python floats raises ZeroDivisionError when y
\* is zero.
\* ---- it == 'Simple'
\* pv = round(fv / (1 + (r / 100) * n), 2)
SimplePv(n, r, fv) ==
    LET den == Add(One, Mul(Div(r, Hundred), n)) IN
    IF den = Zero THEN Raise("ZeroDivisionError")
    ELSE Value(Round(Div(fv, den), 2))

\* n = math.ceil((fv / pv - 1) / (r / 100))
SimpleN(pv, r, fv) ==
    IF pv = Zero \/ Div(r, Hundred) = Zero THEN Raise("ZeroDivisionError")
    ELSE Value(Ceil(Div(Sub(Div(fv, pv), One), Div(r, Hundred))))

\* r = round(100 * (fv / pv - 1) / n, 3)
SimpleR(pv, n, fv) ==
    IF pv = Zero \/ n = Zero THEN Raise("ZeroDivisionError")
    ELSE Value(Round(Div(Mul(Hundred, Sub(Div(fv, pv), One)), n), 3))

\* fv = round((1 + (r / 100) * n) * pv, 2)
SimpleFv(pv, n, r) ==
    Value(Round(Mul(Add(One, Mul(Div(r, Hundred), n)), pv), 2))

\* ---- it == 'Compound' (base 1 + r / 100, periods n) and
\* ---- it == 'Monthly Compound' (base 1 + r / 1200, periods 12 * n);
\* the number of periods is whole and not negative.
\* pv = round(fv / base ** periods, 2)
CompoundPv(base, periods, fv) ==
    IF Pow(base, periods) = Zero THEN Raise("ZeroDivisionError")
    ELSE Value(Round(Div(fv, Pow(base, periods)), 2))

\* n = math.ceil(math.log(fv / pv) / (k * math.log(base)) - shift) for base >= 1,
\* with k = 1, shift = 0 (Compound) or k = 12, shift = 1 (Monthly Compound);
\* math.log raises ValueError on an argument that is not positive.
CompoundN(pv, base, k, fv, shift) ==
    IF pv = Zero THEN Raise("ZeroDivisionError")
    ELSE IF ~Lt(Zero, Div(fv, pv)) THEN Raise("ValueError")
    ELSE IF base = One THEN Raise("ZeroDivisionError")
    ELSE Value(Sub(CeilLog(Div(fv, pv), base, k), FromInt(shift)))

\* r = round(scale * ((fv / pv) ** (1 / periods) - 1), ndigits), for fv / pv >= 0
\* with a rational root
CompoundR(pv, periods, fv, scale, ndigits) ==
    IF pv = Zero \/ periods = 0 THEN Raise("ZeroDivisionError")
    ELSE Value(Round(Mul(scale, Sub(Root(Div(fv, pv), periods), One)), ndigits))

\* fv = round(pv * base ** periods, 2)
CompoundFv(pv, base, periods) == Value(Round(Mul(pv, Pow(base, periods)), 2))

InterestTypes == {"Simple", "Compound", "Monthly Compound"}

\* The branch of the if / elif chain taken for the four converted values: the
\* one that is None when the other three are not, else the final else.
Missing(pv, n, r, fv) ==
    IF pv = None /\ n # None /\ r # None /\ fv # None THEN "pv"
    ELSE IF n = None /\ pv # None /\ r # None /\ fv # None THEN "n"
    ELSE IF r = None /\ pv # None /\ n # None /\ fv # None THEN "r"
    ELSE IF fv = None /\ pv # None /\ r # None /\ n # None THEN "fv"
    ELSE "else"

\* The value computed by the branch, or the exception it raises.
Calculate(it, missing, pv, n, r, fv) ==
    LET scale == IF it = "Compound" THEN Hundred ELSE TwelveHundred
        k == IF it = "Compound" THEN 1 ELSE 12
        base == Add(One, Div(r, scale))
        ndigits == IF it = "Compound" THEN 2 ELSE 3
        shift == IF it = "Compound" THEN 0 ELSE 1
    IN  IF it = "Simple"
        THEN CASE missing = "pv" -> SimplePv(n, r, fv)
               [] missing = "n" -> SimpleN(pv, r, fv)
               [] missing = "r" -> SimpleR(pv, n, fv)
               [] missing = "fv" -> SimpleFv(pv, n, r)
        ELSE CASE missing = "pv" -> CompoundPv(base, k * n.n, fv)
               [] missing = "n" -> CompoundN(pv, base, k, fv, shift)
               [] missing = "r" -> CompoundR(pv, k * n.n, fv, scale, ndigits)
               [] missing = "fv" -> CompoundFv(pv, base, k * n.n)

\* The inputs of a branch on which Calculate is exact: years that are a whole
\* number and not negative wherever they are an exponent, a factor 1 + r / 100 of
\* at least 1 under a logarithm, a monthly factor 1 + r / 1200 that is 0, 1 or 2
\* (so that its 12n-th power is a machine integer), and a ratio fv / pv with a
\* rational root where a root is taken.
Computable(it, missing, pv, n, r, fv) ==
    IF it = "Simple" \/ missing = "else" THEN TRUE
    ELSE LET scale == IF it = "Compound" THEN Hundred ELSE TwelveHundred
             k == IF it = "Compound" THEN 1 ELSE 12
             base == Add(One, Div(r, scale))
         IN  /\ missing # "n" => n.d = 1 /\ n.n >= 0
             /\ missing # "r" =>
                  IF it = "Compound" THEN ~Lt(base, Zero)
                  ELSE base \in {Zero, One, FromInt(2)}
             /\ missing = "n" => ~Lt(base, One)
             /\ missing = "r" /\ pv # Zero /\ n # Zero =>
                  ~Lt(Div(fv, pv), Zero) /\ HasRoot(Div(fv, pv), k * n.n)

NoMessage == <<"", "">>
ExactlyThree ==
    <<"Input Error", "Please enter exactly three values into the interest calculator.">>
ValidOperation == <<"Operation Error", "Please select a valid operation.">>
ValidNumbers == <<"Input Error", "Please enter valid numbers.">>

\* What one run of calculate_missing does: at most one entry box filled, at most
\* one error box shown, and the exception that leaves the callback, if any.
Shows(a_value, b_value, c_value, d_value, message) ==
    [a |-> a_value, b |-> b_value, c |-> c_value, d |-> d_value,
     messagebox |-> message, uncaught |-> "none"]
Escapes(a_value, b_value, c_value, d_value, e) ==
    [a |-> a_value, b |-> b_value, c |-> c_value, d |-> d_value,
     messagebox |-> NoMessage, uncaught |-> e]

\* The end of a branch that computed a value or raised: the value is inserted
\* into the empty box, a ValueError is caught and reported, any other exception
\* leaves the callback.
Insert(a_value, b_value, c_value, d_value, missing, computed) ==
    IF computed.exc = "ValueError"
    THEN Shows(a_value, b_value, c_value, d_value, ValidNumbers)
    ELSE IF computed.exc # "none"
    THEN Escapes(a_value, b_value, c_value, d_value, computed.exc)
    ELSE Shows(IF missing = "pv" THEN Str(computed.value) ELSE a_value,
               IF missing = "n" THEN Str(computed.value) ELSE b_value,
               IF missing = "r" THEN Str(computed.value) ELSE c_value,
               IF missing = "fv" THEN Str(computed.value) ELSE d_value,
               NoMessage)

\* The if / elif chain of one interest type.
Branch(a_value, b_value, c_value, d_value, it, missing) ==
    IF missing = "else"
    THEN Shows(a_value, b_value, c_value, d_value, ExactlyThree)
    ELSE Insert(a_value, b_value, c_value, d_value, missing,
                Calculate(it, missing, Float(a_value), Float(b_value),
                          Float(c_value), Float(d_value)))

calculate_missing(a_value, b_value, c_value, d_value, it) ==
    IF FloatRaises(a_value, b_value, c_value, d_value)
    THEN Shows(a_value, b_value, c_value, d_value, ValidNumbers)
    ELSE IF it \notin InterestTypes
    THEN Shows(a_value, b_value, c_value, d_value, ValidOperation)
    ELSE Branch(a_value, b_value, c_value, d_value, it,
                Missing(Float(a_value), Float(b_value), Float(c_value), Float(d_value)))

\* The final capital before it is rounded, for a whole number of years.
FinalCapital(it, pv, n, r) ==
    IF it = "Simple" THEN Mul(Add(One, Mul(Div(r, Hundred), n)), pv)
    ELSE IF it = "Compound" THEN Mul(pv, Pow(Add(One, Div(r, Hundred)), n.n))
    ELSE Mul(Pow(Add(One, Div(r, TwelveHundred)), 12 * n.n), pv)

\* What the user may type before the first press.
CapitalTexts == {Empty, InvalidText} \cup {Str(FromInt(k)) : k \in {0, 1, 2}}
YearsTexts == {Empty} \cup {Str(FromInt(k)) : k \in {0, 1, 2}}
RateTexts == {Empty} \cup {Str(FromInt(k)) : k \in {0, 100, 1200}}
FinalTexts == {Empty} \cup {Str(FromInt(k)) : k \in {0, 1, 2, 4}}
TypeTexts == InterestTypes \cup {""}

\* ------------------------------------------------------------ one call, step by step
VARIABLES S, K, T, r, sigma, N, option_type,
          delta_t, u, d, R, q, stock_prices, option_values, i, j,
          pc, result, exception

\* Bookkeeping of the grid accesses: the slots the last step read, and the slots
\* assigned so far (np.zeros assigns nothing).
VARIABLES reads, written

\* implied_volatility: the bracket, the midpoint, the position and the value returned.
VARIABLES sigma_low, sigma_high, sigma_mid, iv_pc, iv_result

\* Interest calculator: the four entry boxes, the dropdown, the error box shown
\* by the last press, the exception that left the last press, and the number of
\* presses so far.
VARIABLES a_entry, b_entry, c_entry, d_entry, operation_combo,
          messagebox, uncaught, presses

args == <<S, K, T, r, sigma, N, option_type>>
factors == <<delta_t, u, d, R, q>>
pricer_vars == <<S, K, T, r, sigma, N, option_type, delta_t, u, d, R, q,
                 stock_prices, option_values, i, j, pc, result, exception,
                 reads, written>>
iv_vars == <<sigma_low, sigma_high, sigma_mid, iv_pc, iv_result>>
interest_vars == <<a_entry, b_entry, c_entry, d_entry, operation_combo,
                   messagebox, uncaught, presses>>
vars == <<pricer_vars, iv_vars, interest_vars>>

\* The interest calculator window is not open.
InterestIdle ==
    /\ a_entry = Empty /\ b_entry = Empty /\ c_entry = Empty /\ d_entry = Empty
    /\ operation_combo = ""
    /\ messagebox = NoMessage
    /\ uncaught = "none"
    /\ presses = 0

\* No call of implied_volatility is running.
IVIdle ==
    /\ sigma_low = None /\ sigma_high = None /\ sigma_mid = None
    /\ iv_pc = "idle"
    /\ iv_result = None

\* No call of binomial_option_pricer is running.
PricerIdle ==
    /\ S = None /\ K = None /\ T = 0 /\ r = LogNaN /\ sigma = LogNaN /\ N = 0
    /\ option_type = "none"
    /\ delta_t = None /\ u = None /\ d = None /\ R = None /\ q = None
    /\ stock_prices = NoGrid
    /\ option_values = NoGrid
    /\ i = 0 /\ j = 0
    /\ pc = "idle"
    /\ result = None
    /\ exception = "none"
    /\ reads = {}
    /\ written = {}

Init ==
    /\ S \in PriceSet
    /\ K \in PriceSet
    /\ T \in TSet
    /\ r \in RateSet
    /\ sigma \in SigmaSet
    /\ N \in NSet
    /\ option_type \in KindSet
    /\ ExactInput(T, r, sigma, N)
    /\ delta_t = None /\ u = None /\ d = None /\ R = None /\ q = None
    /\ stock_prices = NoGrid
    /\ option_values = NoGrid
    /\ i = 0 /\ j = 0
    /\ pc = "factors"
    /\ result = None
    /\ exception = "none"
    /\ reads = {}
    /\ written = {}
    /\ IVIdle
    /\ InterestIdle

\* T / N raises ZeroDivisionError for N = 0; otherwise the five factors are set.
ComputeFactors ==
    /\ pc = "factors"
    /\ IF N = 0
       THEN /\ pc' = "raised"
            /\ exception' = "ZeroDivisionError"
            /\ UNCHANGED factors
       ELSE /\ delta_t' = Factors(T, r, sigma, N).delta_t
            /\ u' = Factors(T, r, sigma, N).u
            /\ d' = Factors(T, r, sigma, N).d
            /\ R' = Factors(T, r, sigma, N).R
            /\ q' = Factors(T, r, sigma, N).q
            /\ pc' = "alloc_stock"
            /\ UNCHANGED exception
    /\ reads' = {}
    /\ UNCHANGED <<args, stock_prices, option_values, i, j, result, written>>
    /\ UNCHANGED <<iv_vars, interest_vars>>

\* np.zeros raises ValueError for a negative dimension; stock_prices[0, 0] = S
\* raises IndexError on the empty grid of N = -1.
AllocStock ==
    /\ pc = "alloc_stock"
    /\ IF N < -1
       THEN /\ pc' = "raised"
            /\ exception' = "ValueError"
            /\ UNCHANGED <<stock_prices, i, j, written>>
       ELSE IF N = -1
       THEN /\ stock_prices' = Zeros(N)
            /\ pc' = "raised"
            /\ exception' = "IndexError"
            /\ UNCHANGED <<i, j, written>>
       ELSE /\ stock_prices' = [Zeros(N) EXCEPT ![<<0, 0>>] = S]
            /\ written' = written \cup {Slot("stock_prices", <<0, 0>>)}
            /\ i' = 1
            /\ j' = 0
            /\ pc' = "stock_loop"
            /\ UNCHANGED exception
    /\ reads' = {}
    /\ UNCHANGED <<args, factors, option_values, result>>
    /\ UNCHANGED <<iv_vars, interest_vars>>

\* One assignment of the price loops, or their exit.
StockStep ==
    /\ pc = "stock_loop"
    /\ IF i > N
       THEN /\ pc' = "payoff"
            /\ reads' = {}
            /\ UNCHANGED <<stock_prices, i, j, written>>
       ELSE /\ stock_prices' = StockNode(stock_prices, i, j, u, d)
            /\ reads' = {Slot("stock_prices", StockParent(i, j))}
            /\ written' = written \cup {Slot("stock_prices", <<i, j>>)}
            /\ IF j < i
               THEN i' = i /\ j' = j + 1
               ELSE i' = i + 1 /\ j' = 0
            /\ pc' = "stock_loop"
    /\ UNCHANGED <<args, factors, option_values, result, exception>>
    /\ UNCHANGED <<iv_vars, interest_vars>>

\* The option grid is allocated; its last row is set, or ValueError is raised.
TerminalStep ==
    /\ pc = "payoff"
    /\ IF PayoffBranch(option_type) = "raise"
       THEN /\ option_values' = Zeros(N)
            /\ pc' = "raised"
            /\ exception' = "ValueError"
            /\ reads' = {}
            /\ UNCHANGED <<i, j, written>>
       ELSE /\ option_values' = TerminalPayoff(stock_prices, Zeros(N), N, K, option_type)
            /\ reads' = {Slot("stock_prices", p) : p \in LastRow(N)}
            /\ written' = written \cup {Slot("option_values", p) : p \in LastRow(N)}
            /\ i' = N - 1
            /\ j' = 0
            /\ pc' = "back_loop"
            /\ UNCHANGED exception
    /\ UNCHANGED <<args, factors, stock_prices, result>>
    /\ UNCHANGED <<iv_vars, interest_vars>>

\* One assignment of the backward loops, or their exit.
BackStep ==
    /\ pc = "back_loop"
    /\ IF i < 0
       THEN /\ pc' = "visualize"
            /\ reads' = {}
            /\ UNCHANGED <<option_values, i, j, written>>
       ELSE /\ option_values' = BackNode(option_values, i, j, q, R)
            /\ reads' = {Slot("option_values", UpChild(i, j)),
                         Slot("option_values", DownChild(i, j))}
            /\ written' = written \cup {Slot("option_values", <<i, j>>)}
            /\ IF j < i
               THEN i' = i /\ j' = j + 1
               ELSE i' = i - 1 /\ j' = 0
            /\ pc' = "back_loop"
    /\ UNCHANGED <<args, factors, stock_prices, result, exception>>
    /\ UNCHANGED <<iv_vars, interest_vars>>

\* visualize_binomial_tree plots both grids and changes neither.
Visualize ==
    /\ pc = "visualize"
    /\ pc' = "return"
    /\ reads' = {Slot("stock_prices", p) : p \in Plotted(N)}
                \cup {Slot("option_values", p) : p \in Plotted(N)}
    /\ UNCHANGED <<args, factors, stock_prices, option_values, i, j, result,
                   exception, written>>
    /\ UNCHANGED <<iv_vars, interest_vars>>

\* return option_values[0, 0]
Return ==
    /\ pc = "return"
    /\ result' = option_values[<<0, 0>>]
    /\ pc' = "done"
    /\ reads' = {Slot("option_values", <<0, 0>>)}
    /\ UNCHANGED <<args, factors, stock_prices, option_values, i, j, exception,
                   written>>
    /\ UNCHANGED <<iv_vars, interest_vars>>

Next ==
    \/ ComputeFactors
    \/ AllocStock
    \/ StockStep
    \/ TerminalStep
    \/ BackStep
    \/ Visualize
    \/ Return

Spec == Init /\ [][Next]_vars

\* ------------------------------------------------------------ implied_volatility, step by step
\* Entry of implied_volatility, for any option_price, S, K, T, r and option_type
\* for which option_price_function returns a float.
IVInit ==
    /\ sigma_low = InitialSigmaLow
    /\ sigma_high = InitialSigmaHigh
    /\ sigma_mid = None
    /\ iv_pc = "loop"
    /\ iv_result = None
    /\ PricerIdle
    /\ InterestIdle

\* One iteration of the while loop.  price_mid is the Black-Scholes price at
\* sigma_mid (scipy's norm.cdf); the comparison price_mid < option_price may come
\* out either way, whatever the target and the price function are.
BisectStep ==
    /\ iv_pc = "loop"
    /\ LoopCondition(sigma_low, sigma_high)
    /\ sigma_mid' = Midpoint(sigma_low, sigma_high)
    /\ \E below \in BOOLEAN :
         IF below
         THEN sigma_low' = Midpoint(sigma_low, sigma_high) /\ UNCHANGED sigma_high
         ELSE sigma_high' = Midpoint(sigma_low, sigma_high) /\ UNCHANGED sigma_low
    /\ UNCHANGED <<iv_pc, iv_result, pricer_vars, interest_vars>>

\* The loop exits; return round(sigma_mid, 4)
BisectReturn ==
    /\ iv_pc = "loop"
    /\ ~LoopCondition(sigma_low, sigma_high)
    /\ iv_result' = Round(sigma_mid, 4)
    /\ iv_pc' = "done"
    /\ UNCHANGED <<sigma_low, sigma_high, sigma_mid, pricer_vars, interest_vars>>

IVNext == BisectStep \/ BisectReturn

\* A call that has started runs on until it returns.
SpecIV == IVInit /\ [][IVNext]_vars /\ WF_vars(IVNext)

\* The step-by-step call and the function of its arguments agree.
OutcomeAgrees ==
    /\ pc = "done" =>
         binomial_option_pricer(S, K, T, r, sigma, N, option_type) = Returned(result)
    /\ pc = "raised" =>
         binomial_option_pricer(S, K, T, r, sigma, N, option_type) = Raised(exception)

\* ------------------------------------------------------------ interest calculator, press by press
\* The window after the user has typed into the entry boxes and chosen (or typed)
\* an interest type, on the inputs Calculate is exact for.
InterestInit ==
    /\ a_entry \in CapitalTexts
    /\ b_entry \in YearsTexts
    /\ c_entry \in RateTexts
    /\ d_entry \in FinalTexts
    /\ operation_combo \in TypeTexts
    /\ messagebox = NoMessage
    /\ uncaught = "none"
    /\ presses = 0
    /\ PricerIdle
    /\ IVIdle

\* Whether the press is one Calculate is exact for.
PressComputable ==
    \/ FloatRaises(a_entry, b_entry, c_entry, d_entry)
    \/ operation_combo \notin InterestTypes
    \/ Computable(operation_combo,
                  Missing(Float(a_entry), Float(b_entry), Float(c_entry), Float(d_entry)),
                  Float(a_entry), Float(b_entry), Float(c_entry), Float(d_entry))

\* The user presses "Calculate Missing Value": one run of calculate_missing.
Press ==
    /\ presses < MaxPresses
    /\ PressComputable
    /\ \E out \in {calculate_missing(a_entry, b_entry, c_entry, d_entry, operation_combo)} :
           /\ a_entry' = out.a
           /\ b_entry' = out.b
           /\ c_entry' = out.c
           /\ d_entry' = out.d
           /\ messagebox' = out.messagebox
           /\ uncaught' = out.uncaught
    /\ presses' = presses + 1
    /\ UNCHANGED <<operation_combo, pricer_vars, iv_vars>>

\* After a press the user deletes the content of one entry box.
ClearEntry ==
    /\ 0 < presses /\ presses < MaxPresses
    /\ \E box \in {"a", "b", "c", "d"} :
         /\ a_entry' = IF box = "a" THEN Empty ELSE a_entry
         /\ b_entry' = IF box = "b" THEN Empty ELSE b_entry
         /\ c_entry' = IF box = "c" THEN Empty ELSE c_entry
         /\ d_entry' = IF box = "d" THEN Empty ELSE d_entry
    /\ <<a_entry', b_entry', c_entry', d_entry'>> # <<a_entry, b_entry, c_entry, d_entry>>
    /\ UNCHANGED <<operation_combo, messagebox, uncaught, presses, pricer_vars, iv_vars>>

InterestNext == Press \/ ClearEntry

SpecInterest == InterestInit /\ [][InterestNext]_vars

\* ------------------------------------------------------------ properties
\* The parameter conditions of the specification: N >= 1, S > 0, K > 0, T > 0,
\* sigma >= 0 and no arbitrage, 0 < d < R < u.
InvalidParameter ==
    \/ N < 1
    \/ ~Lt(Zero, S)
    \/ ~Lt(Zero, K)
    \/ T <= 0
    \/ Lt(Exp(sigma), One)

NoArbitrage ==
    /\ N # 0
    /\ Lt(Zero, Factors(T, r, sigma, N).d)
    /\ Lt(Factors(T, r, sigma, N).d, Factors(T, r, sigma, N).R)
    /\ Lt(Factors(T, r, sigma, N).R, Factors(T, r, sigma, N).u)

ValidParameters == ~InvalidParameter /\ NoArbitrage

StockBuilt == pc \in {"payoff", "back_loop", "visualize", "return", "done"}
PayoffSet == pc \in {"back_loop", "visualize", "return", "done"}

\* Node (a, b) of the option grid has been assigned by the backward loops.
BackWritten(a, b) ==
    \/ pc \in {"visualize", "return", "done"}
    \/ pc = "back_loop" /\ (a > i \/ (a = i /\ b < j))

\* Node (a, b) of the price grid has been assigned.
StockWritten(a, b) ==
    \/ StockBuilt
    \/ pc = "stock_loop" /\ (a < i \/ (a = i /\ b < j))

\* The discounted continuation value of node (a, b), from layer a + 1 as it is now.
Continuation(a, b) ==
    Div(Add(Mul(q, option_values[<<a + 1, b>>]),
            Mul(Sub(One, q), option_values[<<a + 1, b + 1>>])), R)

\* C1: every node (a, b) of a layer below N that the backward loops have written
\* holds (q*V(a+1,b) + (1-q)*V(a+1,b+1)) / R of the values layer a+1 holds (so layer
\* a+1 was final when it was read), and the value returned is V(0,0).
C1_BackwardInduction ==
    /\ \A a \in 0..(N - 1) : \A b \in 0..a :
         BackWritten(a, b) => option_values[<<a, b>>] = Continuation(a, b)
    /\ pc = "done" => result = option_values[<<0, 0>>]

C1_Witness ==
    /\ pc = "done"
    /\ N >= 2
    /\ ValidParameters
    /\ R # One
    /\ Lt(Zero, result)
    /\ option_values[<<1, 0>>] # option_values[<<1, 1>>]

\* C2: once the terminal payoff is set, node (N, b) of the option grid holds
\* max(0, price(N,b) - K) for a call and max(0, K - price(N,b)) for a put, for
\* every b in 0..N, and no terminal value is negative.
C2_TerminalPayoff ==
    PayoffSet =>
      \A b \in 0..N :
        LET x == IF option_type = "call"
                 THEN Sub(stock_prices[<<N, b>>], K)
                 ELSE Sub(K, stock_prices[<<N, b>>])
            v == option_values[<<N, b>>]
        IN  /\ IsFinite(x) => v = (IF x.n > 0 THEN x ELSE Zero)
            /\ v.n >= 0

C2_Witness ==
    /\ pc = "done"
    /\ option_type = "put"
    /\ \E b \in 0..N : Lt(Zero, option_values[<<N, b>>])
    /\ \E b \in 0..N : /\ option_values[<<N, b>>] = Zero
                       /\ Lt(K, stock_prices[<<N, b>>])

\* C3: every node (a, b), 0 <= b <= a <= N, of the price grid that has been
\* written holds S * u^(a-b) * d^b.
C3_Recombination ==
    \A a \in 0..N : \A b \in 0..a :
      StockWritten(a, b) =>
        stock_prices[<<a, b>>] = Mul(Mul(S, Pow(u, a - b)), Pow(d, b))

C3_Witness ==
    /\ pc = "done"
    /\ N >= 2
    /\ Lt(One, u)
    /\ Lt(Zero, S)
    /\ stock_prices[<<2, 1>>] = S
    /\ stock_prices[<<2, 0>>] # stock_prices[<<2, 2>>]

\* C4: a call whose option_type is neither 'call' nor 'put' never enters the
\* backward loops and never returns a price: when it has ended, it has raised.
C4_InvalidKindRaises ==
    option_type \notin {"call", "put"} =>
      /\ pc \notin {"back_loop", "visualize", "return", "done"}
      /\ result = None

C4_Witness ==
    /\ option_type = "straddle"
    /\ pc = "raised"
    /\ exception = "ValueError"
    /\ N >= 1

\* C5: a call with N < 1, S <= 0, K <= 0, T <= 0 or sigma < 0 never returns a
\* number.
C5_InvalidParameterRejected ==
    InvalidParameter => ~(pc = "done" /\ IsFinite(result))

\* C6: the backward loops are never entered with q outside (0, 1); stated for
\* the calls whose other parameters are valid, where only the arbitrage check
\* could stop the call.
C6_ProbabilityInRange ==
    pc = "back_loop" /\ ~InvalidParameter => Lt(Zero, q) /\ Lt(q, One)

\* C7: for valid parameters every node (a, b) below layer N ends as
\* max(C, intrinsic(a, b)), the intrinsic value being the payoff rule applied to
\* the node's price.
C7_AmericanExercise ==
    pc = "done" /\ ValidParameters =>
      \A a \in 0..(N - 1) : \A b \in 0..a :
        LET c == Continuation(a, b)
            x == Payoff(stock_prices[<<a, b>>], K, option_type)
        IN  option_values[<<a, b>>] = (IF Lt(c, x) THEN x ELSE c)

\* The price of the put with the arguments of this call.
PutPrice == binomial_option_pricer(S, K, T, r, sigma, N, "put")

\* C8: for valid parameters the call price minus the put price is S - K * R^(-N).
C8_PutCallParity ==
    pc = "done" /\ ValidParameters /\ option_type = "call" =>
      /\ PutPrice.returned
      /\ Sub(result, PutPrice.value) = Sub(S, Div(K, Pow(R, N)))

C8_Witness ==
    /\ pc = "done"
    /\ ValidParameters
    /\ option_type = "call"
    /\ N >= 2
    /\ R # One
    /\ Lt(Zero, result)
    /\ Lt(Zero, PutPrice.value)

\* The price with strike K2 and the other arguments of this call.
PriceAt(K2) == binomial_option_pricer(S, K2, T, r, sigma, N, option_type).value

\* C9 as stated: for valid parameters and a strike K2 > K, the call price at K2 is
\* strictly below and the put price at K2 strictly above the price at K.
C9_StrictMonotone ==
    pc = "done" /\ ValidParameters =>
      \A K2 \in PriceSet :
        Lt(K, K2) =>
          IF option_type = "call" THEN Lt(PriceAt(K2), result)
          ELSE Lt(result, PriceAt(K2))

\* C9 amended: for valid parameters and a strike K2 > K, the call price at K2 is
\* at most and the put price at K2 at least the price at K.
C9_Monotone ==
    pc = "done" /\ ValidParameters =>
      \A K2 \in PriceSet :
        Lt(K, K2) =>
          /\ IsFinite(result) /\ IsFinite(PriceAt(K2))
          /\ IF option_type = "call" THEN ~Lt(result, PriceAt(K2))
             ELSE ~Lt(PriceAt(K2), result)

C9_Witness ==
    /\ pc = "done"
    /\ ValidParameters
    /\ option_type = "call"
    /\ \E K2 \in PriceSet :
         Lt(K, K2) /\ Lt(Zero, PriceAt(K2)) /\ Lt(PriceAt(K2), result)

\* C10: a call that ends in an error has allocated no grid; stated for the calls
\* whose numeric parameters are valid.
C10_NoPartialFailure ==
    pc = "raised" /\ ValidParameters =>
      stock_prices = NoGrid /\ option_values = NoGrid

\* C11: a call with sigma = 0, T > 0, N >= 1 (and S, K, option_type valid) does
\* not raise, and when it has returned every node of a layer holds the same price
\* and the price returned is a number.
C11_DegenerateSigmaPriced ==
    /\ sigma = Log(0, 0) /\ T > 0 /\ N >= 1
    /\ Lt(Zero, S) /\ Lt(Zero, K) /\ option_type \in {"call", "put"}
    => /\ pc # "raised"
       /\ pc = "done" =>
            /\ \A a \in 0..N : \A b \in 0..a :
                 stock_prices[<<a, b>>] = stock_prices[<<a, 0>>]
            /\ IsFinite(result)

\* C13: no step reads a slot (a, b) with b > a of either grid, and every slot a
\* step reads was assigned by an earlier step.
C13_ReadsWritten ==
    [][\A s \in reads' : s[3] <= s[2] /\ s \in written]_vars

C13_Witness ==
    /\ pc = "return"
    /\ N >= 2
    /\ reads = {Slot("stock_prices", p) : p \in Plotted(N)}
               \cup {Slot("option_values", p) : p \in Plotted(N)}
    /\ reads = written

\* The bracket lies inside the initial bracket and holds the midpoint last taken.
BracketOrdered ==
    /\ ~Lt(sigma_low, InitialSigmaLow)
    /\ ~Lt(InitialSigmaHigh, sigma_high)
    /\ Lt(sigma_low, sigma_high)
    /\ sigma_mid # None => ~Lt(sigma_mid, sigma_low) /\ ~Lt(sigma_high, sigma_mid)

\* On exit the bracket is at most tolerance wide and a number is returned: the
\* rounded midpoint, which is an end of the final bracket.  When every comparison
\* went the same way (the target is above or below every price in the bracket)
\* the other end is still the initial one, and the value returned is within
\* tolerance of it.
BracketOnExit ==
    iv_pc = "done" =>
      /\ ~Lt(tolerance, Sub(sigma_high, sigma_low))
      /\ sigma_mid \in {sigma_low, sigma_high}
      /\ iv_result = Round(sigma_mid, 4)
      /\ IsFinite(iv_result)
      /\ sigma_high = InitialSigmaHigh =>
           ~Lt(tolerance, Sub(InitialSigmaHigh, iv_result))
      /\ sigma_low = InitialSigmaLow =>
           ~Lt(tolerance, Sub(iv_result, InitialSigmaLow))

\* Every iteration halves the width of the bracket.
WidthHalves ==
    iv_pc' = "loop" =>
      Sub(sigma_high', sigma_low') = Div(Sub(sigma_high, sigma_low), FromInt(2))

\* C14: the bisection loop keeps 0.0001 <= sigma_low <= sigma_mid <= sigma_high <= 1,
\* halves the bracket on every iteration, ends with a bracket at most tolerance
\* wide, returns a number at an end of the bracket also when the target is out of
\* reach, and always terminates.
C14_Bisection ==
    /\ [](iv_pc # "idle" => BracketOrdered /\ BracketOnExit)
    /\ [][WidthHalves]_vars
    /\ <>(iv_pc = "done")

\* A call that returned with the target above every price of the bracket.
C14_Witness ==
    /\ iv_pc = "done"
    /\ sigma_high = InitialSigmaHigh
    /\ sigma_mid = sigma_low
    /\ Lt(iv_result, InitialSigmaHigh)

\* The entry boxes, and those that hold something.
Boxes == <<a_entry, b_entry, c_entry, d_entry>>
Filled(boxes) == {k \in 1..4 : boxes[k] # Empty}

\* A press with an interest type of the dropdown selected, nothing but numbers
\* in the boxes that are not empty, and positive capitals.
ValidPress ==
    /\ presses' = presses + 1
    /\ operation_combo \in InterestTypes
    /\ ~FloatRaises(a_entry, b_entry, c_entry, d_entry)
    /\ a_entry # Empty => Lt(Zero, a_entry.value)
    /\ d_entry # Empty => Lt(Zero, d_entry.value)

\* C12: a press with exactly three of the four fields present fills in the
\* missing field and reports nothing; a press with fewer than three or with all
\* four present reports the input error and changes no field.
C12_FillsExactlyWhenThree ==
    [][ValidPress =>
          IF Cardinality(Filled(Boxes)) = 3
          THEN /\ Filled(Boxes') = 1..4
               /\ \A k \in Filled(Boxes) : Boxes'[k] = Boxes[k]
               /\ messagebox' = NoMessage
               /\ uncaught' = "none"
          ELSE /\ messagebox' = ExactlyThree
               /\ Boxes' = Boxes]_vars

\* The boxes hold, as typed, a positive capital, a whole number of years n >= 1
\* and a positive rate, for which the final capital and the years are computed
\* exactly.
RoundTripInput ==
    /\ operation_combo \in InterestTypes
    /\ a_entry \in CapitalTexts /\ b_entry \in YearsTexts /\ c_entry \in RateTexts
    /\ a_entry.kind = "number" /\ Lt(Zero, a_entry.value)
    /\ b_entry.kind = "number" /\ b_entry.value.d = 1 /\ b_entry.value.n >= 1
    /\ c_entry.kind = "number" /\ Lt(Zero, c_entry.value)
    /\ Computable(operation_combo, "fv", a_entry.value, b_entry.value, c_entry.value, None)
    /\ Computable(operation_combo, "n", a_entry.value, None, c_entry.value, None)

\* C15: for each interest type, the years solved from (capital, rate, unrounded
\* final capital of n years) are n again.
C15_YearsRoundTrip ==
    RoundTripInput =>
      Calculate(operation_combo, "n", a_entry.value, None, c_entry.value,
                FinalCapital(operation_combo, a_entry.value, b_entry.value, c_entry.value))
        = Value(b_entry.value)

\* The round trip holds for the two yearly interest types.
YearlyRoundTrip == operation_combo # "Monthly Compound" => C15_YearsRoundTrip

====
